---- MODULE Spec2Model ----
(***************************************************************************)
(* The Go client of the BlackRoad SDK (src/go/client.go): configuration    *)
(* resolution in NewClient, request building and the retry loop of         *)
(* Client.request, the error constructors (src/unnamed/part_006) and the   *)
(* query building of TaskAPI.List (src/unnamed/part_005).                  *)
(*                                                                         *)
(* Strings are sequences of one-character strings, so that trimming,       *)
(* escaping, sorting and parsing are computed as the code computes them.   *)
(* Durations are in seconds.                                               *)
(***************************************************************************)
EXTENDS Integers, Sequences, FiniteSets, TLC

VARIABLES
    env,        \* the process environment: BLACKROAD_API_KEY, BLACKROAD_API_URL
    config,     \* the *ClientConfig NewClient was called with
    client,     \* <<>> while no client exists (nil), else <<the Client struct>>
    newErr,     \* the error NewClient returned
    pc,         \* "new", "idle", "attempt", "sleep", "done", "panic"
    call,       \* the arguments of the running call to Client.request, with the
                \* url.Values.Set calls that built its params
    fullURL,    \* request's local fullURL
    jsonBody,   \* request's local jsonBody (the bytes behind bodyReader)
    readPos,    \* how many bytes of bodyReader have been consumed
    attempt,    \* the loop variable of request
    lastErr,    \* request's local lastErr
    pending,    \* the duration of the sleep in progress
    ret,        \* what request returned: [body, err]
    sends,      \* the requests handed to httpClient.Do, in order
    sleeps,     \* the calls of time.Sleep, in order: [after, d]
    outcomes,   \* what each attempt met, in order
    ctx,        \* the context.Context the running call was given
    prev,       \* the call made before the running one, where a caller kept it
                \* to compare: its arguments, its result, the body it was served
    facade,     \* the API method that made the running call (Health, Version,
                \* Agents.List, Tasks.List) and what it returned: [value, err]
    parked      \* the same per-call variables of a second goroutine that is in
                \* Client.request on the same Client and is not running now

vars == <<env, config, client, newErr, pc, call, fullURL, jsonBody, readPos,
          attempt, lastErr, pending, ret, sends, sleeps, outcomes, ctx, prev, facade, parked>>

----------------------------------------------------------------------------
(* Bounds of the model *)

\* ClientConfig.MaxRetries ranges over -1 .. MaxRetriesCfg
MaxRetriesCfg == 3

----------------------------------------------------------------------------
(* Strings *)

Min(S) == CHOOSE x \in S : \A y \in S : x <= y

\* The bytes the model's strings are made of, in ascending byte order.
ByteOrder ==
    <<"\t", " ", "&", "+", "-", ".", "/",
      "0", "1", "2", "3", "4", "5", "6", "7", "8", "9", ":", "=", "?",
      "a", "b", "c", "d", "e", "f", "g", "h", "i", "j", "k", "l", "m", "n",
      "o", "p", "q", "r", "s", "t", "u", "v", "w", "x", "y", "z">>

ByteRank(c) == CHOOSE i \in 1..Len(ByteOrder) : ByteOrder[i] = c

Digits == <<"0", "1", "2", "3", "4", "5", "6", "7", "8", "9">>

IsDigit(c) == \E i \in 1..10 : Digits[i] = c

DigitVal(c) == (CHOOSE i \in 1..10 : Digits[i] = c) - 1

\* Go's string comparison a < b: bytewise lexicographic.
StrLess(a, b) ==
    \E i \in 1..(Len(a) + 1) :
        /\ i <= Len(b)
        /\ \A j \in 1..(i - 1) : a[j] = b[j]
        /\ (i = Len(a) + 1 \/ ByteRank(a[i]) < ByteRank(b[i]))

HasPrefix(s, p) == Len(s) >= Len(p) /\ SubSeq(s, 1, Len(p)) = p

HasSuffix(s, p) == Len(s) >= Len(p) /\ SubSeq(s, Len(s) - Len(p) + 1, Len(s)) = p

\* strings.TrimPrefix: removes one leading occurrence of prefix.
TrimPrefix(s, prefix) ==
    IF HasPrefix(s, prefix) THEN SubSeq(s, Len(prefix) + 1, Len(s)) ELSE s

\* strings.TrimSuffix: removes one trailing occurrence of suffix.
TrimSuffix(s, suffix) ==
    IF HasSuffix(s, suffix) THEN SubSeq(s, 1, Len(s) - Len(suffix)) ELSE s

\* The index of the first occurrence of sub in s, 0 when there is none.
IndexOf(s, sub) ==
    LET I == {i \in 1..(Len(s) - Len(sub) + 1) : SubSeq(s, i, i + Len(sub) - 1) = sub}
    IN  IF I = {} THEN 0 ELSE Min(I)

RECURSIVE Itoa(_)
\* strconv.Itoa for n >= 0.
Itoa(n) == IF n < 10 THEN <<Digits[n + 1]>> ELSE Itoa(n \div 10) \o <<Digits[(n % 10) + 1]>>

RECURSIVE DigitsValue(_)
DigitsValue(s) ==
    IF s = <<>> THEN 0 ELSE 10 * DigitsValue(SubSeq(s, 1, Len(s) - 1)) + DigitVal(s[Len(s)])

\* strconv.Atoi: an optional sign followed by one or more decimal digits.
Atoi(s) ==
    LET signed == s # <<>> /\ s[1] \in {"+", "-"}
        digs   == IF signed THEN Tail(s) ELSE s
    IN  IF digs = <<>> \/ \E i \in 1..Len(digs) : ~IsDigit(digs[i])
        THEN [ok |-> FALSE, val |-> 0]
        ELSE [ok |-> TRUE,
              val |-> IF signed /\ s[1] = "-" THEN 0 - DigitsValue(digs) ELSE DigitsValue(digs)]

----------------------------------------------------------------------------
(* Errors: src/unnamed/part_006 *)

NoArg == <<>>

\* The Error struct with the fields its wrappers add; type "nil" is the nil error.
MkError(type, fmt, arg, code, status) ==
    [type |-> type, Message |-> [fmt |-> fmt, arg |-> arg], Code |-> code,
     StatusCode |-> status, Resource |-> <<>>, RetryAfter |-> 0, Details |-> <<>>,
     Cause |-> ""]

NilError == MkError("nil", "", NoArg, "", 0)

NewAuthenticationError(message) ==
    MkError("AuthenticationError", message, NoArg, "AUTHENTICATION_ERROR", 401)

NewNotFoundError(resource) ==
    [MkError("NotFoundError", "resource not found: %s", resource, "NOT_FOUND", 404)
        EXCEPT !.Resource = resource]

NewRateLimitError(retryAfter) ==
    [MkError("RateLimitError", "rate limit exceeded", NoArg, "RATE_LIMIT_EXCEEDED", 429)
        EXCEPT !.RetryAfter = retryAfter]

NewValidationError(details) ==
    [MkError("ValidationError", "validation error: %s", details, "VALIDATION_ERROR", 422)
        EXCEPT !.Details = details]

NewConnectionError(message, cause) ==
    [MkError("ConnectionError", message, NoArg, "CONNECTION_ERROR", 0)
        EXCEPT !.Cause = cause]

\* The default branch of request's status switch.
NewApiError(status, respBody) ==
    MkError("Error", "API error: %s", respBody, "API_ERROR", status)

\* The error request returns when the loop ends with lastErr == nil.
MaxRetriesExceeded == MkError("Error", "max retries exceeded", NoArg, "", 0)

----------------------------------------------------------------------------
(* Configuration: NewClient *)

defaultBaseURL ==
    <<"h", "t", "t", "p", "s", ":", "/", "/", "a", "p", "i", ".", "b", "l", "a", "c", "k",
      "r", "o", "a", "d", ".", "i", "o", "/", "v", "1">>

defaultTimeout == 30

defaultMaxRetries == 3

EnvKey == <<"e", "k">>
CfgKey == <<"c", "k">>
EnvURL == <<"e", "u", "/">>
CfgURLs == {<<"c", "u">>, <<"c", "u", "/">>, <<"c", "u", "/", "/">>}

Envs == [key : {<<>>, EnvKey}, url : {<<>>, EnvURL}]

NoEnv == [key |-> <<>>, url |-> <<>>]

\* The zero ClientConfig; isNil marks the nil pointer.
ZeroConfig ==
    [isNil |-> FALSE, APIKey |-> <<>>, BaseURL |-> <<>>, Timeout |-> 0, MaxRetries |-> 0,
     HTTPClient |-> FALSE]

KeyedConfig == [ZeroConfig EXCEPT !.APIKey = CfgKey]

\* The configurations the retry loop is explored under: every retry budget.
RetryConfigs == {[KeyedConfig EXCEPT !.MaxRetries = m] : m \in (0 - 1)..MaxRetriesCfg}

\* The configurations NewClient is explored under.
Configs ==
    {[ZeroConfig EXCEPT !.isNil = TRUE], ZeroConfig, KeyedConfig}
    \cup {[KeyedConfig EXCEPT !.BaseURL = u] : u \in CfgURLs}
    \cup {[KeyedConfig EXCEPT !.MaxRetries = m] : m \in {0 - 1, 1, 2}}
    \cup {[KeyedConfig EXCEPT !.Timeout = 5, !.HTTPClient = h] : h \in BOOLEAN}
    \cup {[KeyedConfig EXCEPT !.HTTPClient = TRUE]}

\* A resolver that prefers the environment to the explicit value.
ResolveAPIKey_EnvFirst(cfgKey, envKey) == IF envKey = <<>> THEN cfgKey ELSE envKey

ResolveAPIKey(cfgKey, envKey) == IF cfgKey = <<>> THEN envKey ELSE cfgKey

ResolveBaseURL(cfgURL, envURL) ==
    LET a == IF cfgURL = <<>> THEN envURL ELSE cfgURL
        b == IF a = <<>> THEN defaultBaseURL ELSE a
    IN  TrimSuffix(b, <<"/">>)

ResolveTimeout(t) == IF t = 0 THEN defaultTimeout ELSE t

ResolveMaxRetries(m) == IF m = 0 THEN defaultMaxRetries ELSE m

----------------------------------------------------------------------------
(* Request building *)

\* url.Values holding one value per key: a function from keys to values.
EmptyValues == [k \in {} |-> <<>>]

\* url.Values.Set
Set(v, key, value) == [k \in DOMAIN v \cup {key} |-> IF k = key THEN value ELSE v[k]]

RECURSIVE ApplySets(_)
\* The url.Values a sequence of Set calls leaves.
ApplySets(sets) ==
    IF sets = <<>> THEN EmptyValues
    ELSE Set(ApplySets(SubSeq(sets, 1, Len(sets) - 1)), sets[Len(sets)][1], sets[Len(sets)][2])

\* The bytes url.QueryEscape leaves alone, and its %XX codes for the others.
Unreserved(c) == IsDigit(c) \/ (ByteRank(c) >= ByteRank("a") /\ ByteRank(c) <= ByteRank("z")) \/ c = "-"

HexOf(c) ==
    CASE c = "\t" -> <<"%", "0", "9">>
      [] c = "&"  -> <<"%", "2", "6">>
      [] c = "+"  -> <<"%", "2", "B">>
      [] c = "/"  -> <<"%", "2", "F">>
      [] c = ":"  -> <<"%", "3", "A">>
      [] c = "="  -> <<"%", "3", "D">>
      [] c = "?"  -> <<"%", "3", "F">>

RECURSIVE QueryEscape(_)
QueryEscape(s) ==
    IF s = <<>> THEN <<>>
    ELSE (IF Unreserved(s[1]) THEN <<s[1]>> ELSE IF s[1] = " " THEN <<"+">> ELSE HexOf(s[1]))
         \o QueryEscape(Tail(s))

RECURSIVE SortKeys(_)
\* slices.Sort of the keys, as url.Values.Encode does before writing them.
SortKeys(K) ==
    IF K = {} THEN <<>>
    ELSE LET m == CHOOSE k \in K : \A o \in K \ {k} : StrLess(k, o)
         IN  <<m>> \o SortKeys(K \ {m})

RECURSIVE EncodeKeys(_, _)
EncodeKeys(v, keys) ==
    IF keys = <<>> THEN <<>>
    ELSE LET kv == QueryEscape(keys[1]) \o <<"=">> \o QueryEscape(v[keys[1]])
         IN  IF Len(keys) = 1 THEN kv ELSE kv \o <<"&">> \o EncodeKeys(v, Tail(keys))

\* The keys written from the greatest to the least: a sort with its comparison
\* the wrong way round.
EncodeOrder_Descending(v) ==
    LET up == SortKeys(DOMAIN v) IN [i \in 1..Len(up) |-> up[Len(up) + 1 - i]]

\* The order in which url.Values.Encode writes the keys of v.
EncodeOrder(v) == SortKeys(DOMAIN v)

\* url.Values.Encode
Encode(v) == EncodeKeys(v, EncodeOrder(v))

\* request, lines 124-127
BuildURL(baseURL, endpoint, params) ==
    LET u == baseURL \o <<"/">> \o TrimPrefix(endpoint, <<"/">>)
    IN  IF Cardinality(DOMAIN params) > 0 THEN u \o <<"?">> \o Encode(params) ELSE u

\* http.NewRequestWithContext fails on a URL url.Parse rejects (a control byte).
ParseOK(u) == \A i \in 1..Len(u) : u[i] # "\t"

\* Request bodies: nil, a value json.Marshal encodes, a value it rejects (a channel).
JsonToken(t, k, v) == [t |-> t, k |-> k, v |-> v]

RECURSIVE MarshalFields(_)
MarshalFields(fields) ==
    IF fields = <<>> THEN <<>>
    ELSE <<JsonToken("pair", fields[1][1], fields[1][2])>>
         \o (IF Len(fields) = 1 THEN <<>> ELSE <<JsonToken(",", "", "")>>)
         \o MarshalFields(Tail(fields))

\* json.Marshal of an object with the given fields
Marshal(body) ==
    IF body.kind = "chan" THEN [ok |-> FALSE, json |-> <<>>]
    ELSE [ok |-> TRUE,
          json |-> <<JsonToken("{", "", "")>> \o MarshalFields(body.fields)
                   \o <<JsonToken("}", "", "")>>]

NilBody == [kind |-> "nil", fields |-> <<>>]

----------------------------------------------------------------------------
(* Inputs *)

Pending == <<"p", "e", "n", "d", "i", "n", "g">>

KStatus   == <<"s", "t", "a", "t", "u", "s">>
KPriority == <<"p", "r", "i", "o", "r", "i", "t", "y">>
KDivision == <<"d", "i", "v", "i", "s", "i", "o", "n">>
KLimit    == <<"l", "i", "m", "i", "t">>
KOffset   == <<"o", "f", "f", "s", "e", "t">>

\* TaskListOptions values; isNil marks the nil pointer.
ZeroListOpts ==
    [isNil |-> FALSE, Status |-> <<>>, Priority |-> <<>>, Division |-> <<>>, Limit |-> 0,
     Offset |-> 0]

ListOpts ==
    {[ZeroListOpts EXCEPT !.isNil = TRUE],
     [ZeroListOpts EXCEPT !.Status = Pending, !.Limit = 10],
     [ZeroListOpts EXCEPT !.Priority = <<"h", "i">>, !.Division = <<"a", " ", "b">>,
                          !.Offset = 5]}

\* Sequences of Set calls by which a caller of Client.Get builds its params.
CallerSets ==
    {<<>>,
     <<<<KLimit, <<"1", "0">>>>, <<KStatus, Pending>>>>,
     <<<<KStatus, <<"a", "&", "b">>>>, <<KStatus, <<"o", "k">>>>>>}

StatusThenLimit == <<<<KStatus, Pending>>, <<KLimit, <<"1", "0">>>>>>

Endpoints == {<<"/", "t">>, <<"t">>, <<"/", "/", "t">>, <<"/", "\t">>}

ChanBody == [kind |-> "chan", fields |-> <<>>]

\* map[string]string{}, which json.Marshal encodes as the two bytes {}
EmptyMapBody == [kind |-> "map", fields |-> <<>>]

StatusMapBody == [kind |-> "map", fields |-> <<<<"status", "completed">>>>]

\* What the server may answer.
Statuses == {200, 204, 401, 404, 422, 429, 500, 503}

\* Response bodies. request uses the body of a 2xx, a 422 and a status of the
\* default branch; on 401, 404 and 429 it reads the body and drops it, and the
\* model gives those responses one body.
RespBodies == {<<"a">>, <<"b">>}

RespBodiesOf(status, bodies) == IF status \in {401, 404, 429} THEN {<<"a">>} ELSE bodies

\* Response bodies for the facades: an object, no JSON, nothing, an array.
JsonBodies == {<<"{", "}">>, <<"a">>, <<>>, <<"[", "]">>}

\* The zero AgentListOptions; isNil marks the nil pointer.
ZeroAgentOpts ==
    [isNil |-> FALSE, Type |-> <<>>, Division |-> <<>>, Level |-> 0, Status |-> <<>>,
     Limit |-> 0, Offset |-> 0]

AgentOpts ==
    {[ZeroAgentOpts EXCEPT !.isNil = TRUE],
     [ZeroAgentOpts EXCEPT !.Division = <<"a">>, !.Level = 2]}

\* Values of the Retry-After header; <<>> is the absent header.
RetryAfterHeaders == {<<>>, <<"1", "2">>, <<"2", "s">>}

\* More of them: signed, zero, with a space in front, with a fraction.
SignedHeaders ==
    RetryAfterHeaders \cup {<<"+", "3">>, <<"-", "1">>, <<"0">>, <<" ", "7">>, <<"1", ".", "5">>}

----------------------------------------------------------------------------
(* State *)

NoCall == [method |-> "", endpoint |-> <<>>, body |-> NilBody, sets |-> <<>>]

NoRet == [body |-> <<>>, err |-> NilError]

CallVarsReset ==
    /\ attempt' = 0
    /\ lastErr' = NilError
    /\ pending' = 0
    /\ readPos' = 0
    /\ sends' = <<>>
    /\ sleeps' = <<>>
    /\ outcomes' = <<>>

\* A context that is not done. Of one that is done, at and during say in
\* which attempt of the call it was cancelled and where that attempt was:
\* in httpClient.Do ("send"), in io.ReadAll ("read") or in time.Sleep ("sleep").
LiveCtx == [done |-> FALSE, at |-> 0, during |-> ""]

\* What a facade returns when it has no value to return: nil or "".
NoValue == [present |-> FALSE, json |-> <<>>]

\* No call was kept.
NoPrev == [kept |-> FALSE, call |-> NoCall, ret |-> NoRet, served |-> <<>>]

\* No facade: Get, Post, Put or Delete was called directly.
NoFacade == [name |-> "", state |-> "none", value |-> NoValue, err |-> NilError]

\* A goroutine that has not called request yet.
IdleLocals ==
    [pc |-> "idle", call |-> NoCall, fullURL |-> <<>>, jsonBody |-> <<>>, readPos |-> 0,
     attempt |-> 0, lastErr |-> NilError, pending |-> 0, ret |-> NoRet,
     sends |-> <<>>, sleeps |-> <<>>, outcomes |-> <<>>, ctx |-> LiveCtx,
     prev |-> NoPrev, facade |-> NoFacade]

InitWith(envs) ==
    /\ env \in envs
    /\ ctx = LiveCtx
    /\ prev = NoPrev
    /\ facade = NoFacade
    /\ parked = IdleLocals
    /\ config = ZeroConfig
    /\ client = <<>>
    /\ newErr = NilError
    /\ pc = "new"
    /\ call = NoCall
    /\ fullURL = <<>>
    /\ jsonBody = <<>>
    /\ readPos = 0
    /\ attempt = 0
    /\ lastErr = NilError
    /\ pending = 0
    /\ ret = NoRet
    /\ sends = <<>>
    /\ sleeps = <<>>
    /\ outcomes = <<>>

----------------------------------------------------------------------------
(* NewClient *)

\* The http.Client the constructed Client sends with (lines 99-104): the
\* caller's (here a zero http.Client, which has no Timeout) or a new one with
\* the resolved timeout.
ResolveHTTPClient(custom, timeout) ==
    [custom |-> custom, Timeout |-> IF custom THEN 0 ELSE timeout]

\* A NewClient without the check of line 76.
MissingKey_NeverChecked(apiKey) == FALSE

\* line 76
MissingKey(apiKey) == apiKey = <<>>

\* A nil config is replaced by the zero ClientConfig (lines 68-70), whose
\* fields the nil value of the model already carries.
NewClient(configs) ==
    /\ pc = "new"
    /\ \E cfg \in configs :
        LET apiKey == ResolveAPIKey(cfg.APIKey, env.key)
        IN  /\ config' = cfg
            /\ IF MissingKey(apiKey)
               THEN /\ client' = <<>>
                    /\ newErr' = NewAuthenticationError("API key required. Set BLACKROAD_API_KEY environment variable or pass APIKey in config.")
               ELSE /\ client' =
                        <<[apiKey     |-> apiKey,
                           baseURL    |-> ResolveBaseURL(cfg.BaseURL, env.url),
                           timeout    |-> ResolveTimeout(cfg.Timeout),
                           maxRetries |-> ResolveMaxRetries(cfg.MaxRetries),
                           httpClient |-> ResolveHTTPClient(cfg.HTTPClient,
                                                            ResolveTimeout(cfg.Timeout))]>>
                    /\ newErr' = NilError
    /\ pc' = "idle"
    /\ UNCHANGED <<env, call, fullURL, jsonBody, readPos, attempt, lastErr, pending, ret,
                   sends, sleeps, outcomes, ctx, prev, facade, parked>>

----------------------------------------------------------------------------
(* Client.request: entry *)

\* An end of the loop that forgets lastErr.
AfterLoop_AlwaysGeneric(le) == MaxRetriesExceeded

\* lines 195-198: what request returns when the loop ends without returning
AfterLoop(le) == IF le # NilError THEN le ELSE MaxRetriesExceeded

\* request up to the first test of the loop condition (lines 124-139). On a
\* nil *Client the read of c.baseURL panics before anything is sent.
Request(method, endpoint, body, sets) ==
    /\ pc \in {"idle", "done"}
    /\ facade.state # "called"
    /\ call' = [method |-> method, endpoint |-> endpoint, body |-> body, sets |-> sets]
    /\ CallVarsReset
    /\ IF client = <<>>
       THEN /\ pc' = "panic"
            /\ UNCHANGED <<fullURL, jsonBody, ret>>
       ELSE /\ fullURL' = BuildURL(client[1].baseURL, endpoint, ApplySets(sets))
            /\ IF body.kind # "nil" /\ ~Marshal(body).ok
               THEN /\ jsonBody' = <<>>
                    /\ ret' = [body |-> <<>>,
                               err |-> NewConnectionError("failed to marshal request body", "marshal")]
                    /\ pc' = "done"
               ELSE /\ jsonBody' = IF body.kind = "nil" THEN <<>> ELSE Marshal(body).json
                    /\ IF 0 < client[1].maxRetries
                       THEN /\ ret' = NoRet
                            /\ pc' = "attempt"
                       ELSE /\ ret' = [body |-> <<>>, err |-> AfterLoop(NilError)]
                            /\ pc' = "done"
    /\ ctx' = LiveCtx
    /\ UNCHANGED <<env, config, client, newErr, parked>>

Get(endpoints, paramSets) ==
    /\ \E e \in endpoints, sets \in paramSets : Request("GET", e, NilBody, sets)
    /\ facade' = NoFacade
    /\ prev' = prev

Post(endpoints, bodies) ==
    /\ \E e \in endpoints, b \in bodies : Request("POST", e, b, <<>>)
    /\ facade' = NoFacade
    /\ prev' = prev

Put(endpoints, bodies) ==
    /\ \E e \in endpoints, b \in bodies : Request("PUT", e, b, <<>>)
    /\ facade' = NoFacade
    /\ prev' = prev

Delete(endpoints) ==
    /\ \E e \in endpoints : Request("DELETE", e, NilBody, <<>>)
    /\ facade' = NoFacade
    /\ prev' = prev

\* Get, by a caller that keeps the call it made before to compare the two.
GetAgain(endpoints, paramSets) ==
    /\ \E e \in endpoints, sets \in paramSets : Request("GET", e, NilBody, sets)
    /\ facade' = NoFacade
    /\ prev' = IF pc = "done"
               THEN [kept |-> TRUE, call |-> call, ret |-> ret,
                     served |-> IF outcomes = <<>> THEN <<>>
                                ELSE outcomes[Len(outcomes)].body]
               ELSE prev

\* A facade has called Get and waits for it to return.
Called(name) == [name |-> name, state |-> "called", value |-> NoValue, err |-> NilError]

\* The Set calls of TaskAPI.List, in the order it makes them.
ListSets(opts) ==
    IF opts.isNil THEN <<>>
    ELSE (IF opts.Status # <<>> THEN <<<<KStatus, opts.Status>>>> ELSE <<>>)
         \o (IF opts.Priority # <<>> THEN <<<<KPriority, opts.Priority>>>> ELSE <<>>)
         \o (IF opts.Division # <<>> THEN <<<<KDivision, opts.Division>>>> ELSE <<>>)
         \o (IF opts.Limit > 0 THEN <<<<KLimit, Itoa(opts.Limit)>>>> ELSE <<>>)
         \o (IF opts.Offset > 0 THEN <<<<KOffset, Itoa(opts.Offset)>>>> ELSE <<>>)

TasksList(options) ==
    /\ \E opts \in options :
            Request("GET", <<"/", "t", "a", "s", "k", "s">>, NilBody, ListSets(opts))
    /\ facade' = Called("Tasks.List")
    /\ prev' = prev

KType == <<"t", "y", "p", "e">>

KLevel == <<"l", "e", "v", "e", "l">>

\* The Set calls of AgentAPI.List, in the order it makes them.
AgentListSets(opts) ==
    IF opts.isNil THEN <<>>
    ELSE (IF opts.Type # <<>> THEN <<<<KType, opts.Type>>>> ELSE <<>>)
         \o (IF opts.Division # <<>> THEN <<<<KDivision, opts.Division>>>> ELSE <<>>)
         \o (IF opts.Level > 0 THEN <<<<KLevel, Itoa(opts.Level)>>>> ELSE <<>>)
         \o (IF opts.Status # <<>> THEN <<<<KStatus, opts.Status>>>> ELSE <<>>)
         \o (IF opts.Limit > 0 THEN <<<<KLimit, Itoa(opts.Limit)>>>> ELSE <<>>)
         \o (IF opts.Offset > 0 THEN <<<<KOffset, Itoa(opts.Offset)>>>> ELSE <<>>)

AgentsList(options) ==
    /\ \E opts \in options :
            Request("GET", <<"/", "a", "g", "e", "n", "t", "s">>, NilBody, AgentListSets(opts))
    /\ facade' = Called("Agents.List")
    /\ prev' = prev

Health ==
    /\ Request("GET", <<"/", "h", "e", "a", "l", "t", "h">>, NilBody, <<>>)
    /\ facade' = Called("Health")
    /\ prev' = prev

Version ==
    /\ Request("GET", <<"/", "v", "e", "r", "s", "i", "o", "n">>, NilBody, <<>>)
    /\ facade' = Called("Version")
    /\ prev' = prev

\* What encoding/json takes a body for. The scanner of the model knows the
\* empty object, the empty array, null and unsigned integers; every other
\* body of the model is not JSON.
JSONKind(b) ==
    IF b = <<"{", "}">> THEN "object"
    ELSE IF b = <<"[", "]">> THEN "array"
    ELSE IF b = <<"n", "u", "l", "l">> THEN "null"
    ELSE IF b # <<>> /\ (\A i \in 1..Len(b) : IsDigit(b[i])) THEN "number"
    ELSE "invalid"

\* json.Unmarshal into a struct: an object fills it, null leaves it as it is,
\* anything else is an error.
Unmarshal(b) ==
    IF JSONKind(b) \in {"object", "null"}
    THEN [ok |-> TRUE, value |-> [present |-> TRUE, json |-> b]]
    ELSE [ok |-> FALSE, value |-> NoValue]

\* The message of the ConnectionError a facade wraps a decoding error in.
ParseMessage(name) ==
    CASE name = "Health" -> "failed to parse health response"
      [] name = "Version" -> "failed to parse version response"
      [] name = "Agents.List" -> "failed to parse agents response"
      [] name = "Tasks.List" -> "failed to parse tasks response"

\* A facade that does not look at the error of json.Unmarshal and returns the
\* value as far as it was filled.
FacadeResult_IgnoresDecodeError(name, r) ==
    IF r.err # NilError THEN [value |-> NoValue, err |-> r.err]
    ELSE [value |-> [present |-> TRUE, json |-> r.body], err |-> NilError]

\* What a facade returns for what Get returned: the error as it is, else the
\* decoded value, else the decoding error as a ConnectionError.
FacadeResult(name, r) ==
    IF r.err # NilError THEN [value |-> NoValue, err |-> r.err]
    ELSE IF Unmarshal(r.body).ok THEN [value |-> Unmarshal(r.body).value, err |-> NilError]
    ELSE [value |-> NoValue, err |-> NewConnectionError(ParseMessage(name), "json")]

\* Get has returned to the facade, which decodes and returns.
FacadeReturn ==
    /\ pc = "done"
    /\ facade.state = "called"
    /\ facade' = [name  |-> facade.name,
                  state |-> "returned",
                  value |-> FacadeResult(facade.name, ret).value,
                  err   |-> FacadeResult(facade.name, ret).err]
    /\ UNCHANGED <<env, config, client, newErr, parked, ctx, prev, pc, call, fullURL, jsonBody,
                   readPos, attempt, lastErr, pending, ret, sends, sleeps, outcomes>>

----------------------------------------------------------------------------
(* Client.request: the attempt loop, lines 139-199 *)

\* The unread part of bodyReader: what http.NewRequestWithContext takes as the
\* body of the request it builds (bytes.Reader.Len() bytes, from the reader's
\* current offset).
Remaining == SubSeq(jsonBody, readPos + 1, Len(jsonBody))

\* A request that reads BLACKROAD_API_KEY again for every send.
BuiltRequest_RereadsEnv ==
    [method        |-> call.method,
     url           |-> fullURL,
     body          |-> Remaining,
     Authorization |-> [fmt |-> "Bearer %s", arg |-> ResolveAPIKey(config.APIKey, env.key)],
     ContentType   |-> "application/json",
     UserAgent     |-> "blackroad-go/1.0.0"]

\* A request whose headers are set for the first attempt only: a retry goes
\* out with what net/http fills in by itself.
BuiltRequest_BareRetry ==
    [method        |-> call.method,
     url           |-> fullURL,
     body          |-> Remaining,
     Authorization |-> [fmt |-> IF attempt = 0 THEN "Bearer %s" ELSE "",
                        arg |-> IF attempt = 0 THEN client[1].apiKey ELSE <<>>],
     ContentType   |-> IF attempt = 0 THEN "application/json" ELSE "",
     UserAgent     |-> IF attempt = 0 THEN "blackroad-go/1.0.0" ELSE "Go-http-client/1.1"]

\* The request of lines 140-147 as handed to httpClient.Do.
BuiltRequest ==
    [method        |-> call.method,
     url           |-> fullURL,
     body          |-> Remaining,
     Authorization |-> [fmt |-> "Bearer %s", arg |-> client[1].apiKey],
     ContentType   |-> "application/json",
     UserAgent     |-> "blackroad-go/1.0.0"]

\* A backoff that grows by one second an attempt instead of doubling.
Backoff_Linear(att) == att + 1

\* time.Duration(1<<attempt) * time.Second, in seconds. The product fits the
\* int64 nanoseconds of a Duration for attempt <= 33, which the retry budgets
\* of the model stay far below.
Backoff(att) == 2 ^ att

\* A retry delay that is zero without a usable header.
RetryAfterOf_ZeroDefault(hdr) ==
    LET parsed == Atoi(hdr)
    IN  IF hdr # <<>> /\ parsed.ok THEN parsed.val ELSE 0

\* A retry delay that never reads the header.
RetryAfterOf_IgnoresHeader(hdr) == 1

\* lines 175-180
RetryAfterOf(hdr) ==
    LET parsed == Atoi(hdr)
    IN  IF hdr # <<>> /\ parsed.ok THEN parsed.val ELSE 1

\* The guard of line 181 off by one: the last 429 sleeps too.
RetriesLeft_OffByOne(att, maxRetries) == att < maxRetries

\* line 181
RetriesLeft(att, maxRetries) == att < maxRetries - 1

\* line 163
IsSuccess(status) == status >= 200 /\ status < 300

\* The switch without its case 422: the status falls to the default branch.
TerminalStatus_No422(status) == status \in {401, 404}

\* The statuses whose case of the switch returns at once, with what it returns
\* (lines 168-173).
TerminalStatus(status) == status \in {401, 404, 422}

TerminalError(status, endpoint, respBody) ==
    CASE status = 401 -> NewAuthenticationError("invalid API key")
      [] status = 404 -> NewNotFoundError(endpoint)
      [] status = 422 -> NewValidationError(respBody)

Outcome(kind, status, hdr, body) == [kind |-> kind, status |-> status, hdr |-> hdr, body |-> body]

\* Every attempt starts by building the request and handing it to Do, which
\* consumes n bytes of the shared bodyReader: all of them when a response
\* comes back (the server answers a request it has read), any number of them
\* when the exchange fails.
Sent(n) ==
    /\ sends' = Append(sends, BuiltRequest)
    /\ readPos' = readPos + n

\* The loop body is entered: attempt < c.maxRetries held at line 139.
InLoop == pc = "attempt"

\* A loop that keeps the error recorded first: an attempt records its error
\* only while lastErr is nil.
NextAttempt_KeepsFirst(le) ==
    /\ attempt' = attempt + 1
    /\ IF attempt + 1 < client[1].maxRetries
       THEN /\ pc' = "attempt"
            /\ ret' = ret
       ELSE /\ pc' = "done"
            /\ ret' = [body |-> <<>>, err |-> AfterLoop(IF lastErr # NilError THEN lastErr ELSE le)]

\* continue, or the end of the loop body: attempt++ and the loop condition;
\* when it fails request returns by lines 195-198 with le as lastErr.
NextAttempt(le) ==
    /\ attempt' = attempt + 1
    /\ IF attempt + 1 < client[1].maxRetries
       THEN /\ pc' = "attempt"
            /\ ret' = ret
       ELSE /\ pc' = "done"
            /\ ret' = [body |-> <<>>, err |-> AfterLoop(le)]

\* line 140-143: the request cannot be built
CreateFails ==
    /\ InLoop
    /\ ~ParseOK(fullURL)
    /\ ret' = [body |-> <<>>, err |-> NewConnectionError("failed to create request", "parse")]
    /\ pc' = "done"
    /\ UNCHANGED <<env, config, client, newErr, parked, ctx, prev, facade,
                   call, fullURL, jsonBody, readPos, attempt, lastErr,
                   pending, sends, sleeps, outcomes>>

\* A loop that gives up when Do fails on a cancelled context: it returns the
\* error at once, with no backoff and no further attempt.
DoFails_StopsWhenCancelled ==
    /\ InLoop
    /\ ParseOK(fullURL)
    /\ ~(ctx.done /\ ctx.at = attempt /\ ctx.during = "read")
    /\ \E n \in 0..Len(Remaining) : Sent(n)
    /\ outcomes' = Append(outcomes, Outcome("transport", 0, <<>>, <<>>))
    /\ lastErr' = NewConnectionError("request failed", "transport")
    /\ IF ctx.done
       THEN /\ ret' = [body |-> <<>>, err |-> lastErr']
            /\ pc' = "done"
            /\ UNCHANGED <<sleeps, pending>>
       ELSE /\ sleeps' = Append(sleeps, [after |-> attempt, d |-> Backoff(attempt)])
            /\ pending' = Backoff(attempt)
            /\ pc' = "sleep"
            /\ ret' = ret
    /\ UNCHANGED <<env, config, client, newErr, parked, ctx, prev, facade,
                   call, fullURL, jsonBody, attempt>>

\* lines 149-154: Do returns an error, having written any part of the body
DoFails ==
    /\ InLoop
    /\ ParseOK(fullURL)
    /\ ~(ctx.done /\ ctx.at = attempt /\ ctx.during = "read")
    /\ \E n \in 0..Len(Remaining) : Sent(n)
    /\ outcomes' = Append(outcomes, Outcome("transport", 0, <<>>, <<>>))
    /\ lastErr' = NewConnectionError("request failed", "transport")
    /\ sleeps' = Append(sleeps, [after |-> attempt, d |-> Backoff(attempt)])
    /\ pending' = Backoff(attempt)
    /\ pc' = "sleep"
    /\ UNCHANGED <<env, config, client, newErr, parked, ctx, prev, facade,
                   call, fullURL, jsonBody, attempt, ret>>

\* lines 157-161: the response arrived, reading its body fails
ReadFails ==
    /\ InLoop
    /\ ParseOK(fullURL)
    /\ ctx.done => (ctx.at = attempt /\ ctx.during = "read")
    /\ Sent(Len(Remaining))
    /\ outcomes' = Append(outcomes, Outcome("readfail", 0, <<>>, <<>>))
    /\ lastErr' = NewConnectionError("failed to read response", "read")
    /\ NextAttempt(lastErr')
    /\ UNCHANGED <<env, config, client, newErr, parked, ctx, prev, facade,
                   call, fullURL, jsonBody, pending, sleeps>>

\* A request that answers a repeated call from what the call before returned.
SuccessResult_FromCache(respBody) ==
    IF prev.kept /\ prev.call = call /\ prev.ret.err = NilError
    THEN prev.ret
    ELSE [body |-> respBody, err |-> NilError]

\* lines 163-165: the body read from the response, as it is
SuccessResult(respBody) == [body |-> respBody, err |-> NilError]

\* lines 163-192: the response arrived and was read
RespondWith(statuses, bodies, headers) ==
    /\ InLoop
    /\ ParseOK(fullURL)
    /\ ~ctx.done
    /\ Sent(Len(Remaining))
    /\ \E status \in statuses, hdr \in headers :
       \E respBody \in RespBodiesOf(status, bodies) :
        /\ hdr # <<>> => status = 429
        /\ outcomes' = Append(outcomes, Outcome("status", status, hdr, respBody))
        /\ IF IsSuccess(status)
           THEN /\ ret' = SuccessResult(respBody)
                /\ pc' = "done"
                /\ UNCHANGED <<attempt, lastErr, pending, sleeps>>
           ELSE IF TerminalStatus(status)
           THEN /\ ret' = [body |-> <<>>, err |-> TerminalError(status, call.endpoint, respBody)]
                /\ pc' = "done"
                /\ UNCHANGED <<attempt, lastErr, pending, sleeps>>
           ELSE IF status = 429
           THEN IF RetriesLeft(attempt, client[1].maxRetries)
                THEN /\ sleeps' = Append(sleeps, [after |-> attempt, d |-> RetryAfterOf(hdr)])
                     /\ pending' = RetryAfterOf(hdr)
                     /\ pc' = "sleep"
                     /\ UNCHANGED <<attempt, lastErr, ret>>
                ELSE /\ ret' = [body |-> <<>>, err |-> NewRateLimitError(RetryAfterOf(hdr))]
                     /\ pc' = "done"
                     /\ UNCHANGED <<attempt, lastErr, pending, sleeps>>
           ELSE /\ lastErr' = NewApiError(status, respBody)
                /\ NextAttempt(lastErr')
                /\ UNCHANGED <<pending, sleeps>>
    /\ UNCHANGED <<env, config, client, newErr, parked, ctx, prev, facade,
                   call, fullURL, jsonBody>>

Respond(statuses) == RespondWith(statuses, RespBodies, RetryAfterHeaders)

\* time.Sleep returns and the loop goes on (continue)
Wake ==
    /\ pc = "sleep"
    /\ pending' = 0
    /\ NextAttempt(lastErr)
    /\ UNCHANGED <<env, config, client, newErr, parked, ctx, prev, facade,
                   call, fullURL, jsonBody, readPos, lastErr,
                   sends, sleeps, outcomes>>

\* The caller cancels the context of the running call, while an attempt is
\* in flight or during a sleep. From then on httpClient.Do fails; the attempt
\* that was in flight fails in Do or, when Do had returned the response
\* already, in io.ReadAll. time.Sleep does not look at the context.
Cancel ==
    /\ pc \in {"attempt", "sleep"}
    /\ ~ctx.done
    /\ \E where \in IF pc = "attempt" THEN {"send", "read"} ELSE {"sleep"} :
            ctx' = [done |-> TRUE, at |-> attempt, during |-> where]
    /\ UNCHANGED <<env, config, client, newErr, parked, prev, facade, pc, call, fullURL, jsonBody,
                   readPos, attempt, lastErr, pending, ret, sends, sleeps, outcomes>>

\* Values the environment variables are changed to once a client exists.
NewKey == <<"n", "k">>

NewURL == <<"n", "u">>

\* The process sets or unsets BLACKROAD_API_KEY or BLACKROAD_API_URL (the
\* variables os.Getenv reads in NewClient) after NewClient has returned,
\* before or in the middle of a call.
Setenv ==
    /\ pc \in {"idle", "attempt", "sleep"}
    /\ \/ \E k \in {<<>>, NewKey} : env' = [env EXCEPT !.key = k]
       \/ \E u \in {<<>>, NewURL} : env' = [env EXCEPT !.url = u]
    /\ env' # env
    /\ UNCHANGED <<config, client, newErr, parked, ctx, prev, facade, pc, call, fullURL, jsonBody,
                   readPos, attempt, lastErr, pending, ret, sends, sleeps, outcomes>>

----------------------------------------------------------------------------
(* Two goroutines in request on one Client *)

\* The variables of the running call as one record.
Locals ==
    [pc |-> pc, call |-> call, fullURL |-> fullURL, jsonBody |-> jsonBody,
     readPos |-> readPos, attempt |-> attempt, lastErr |-> lastErr, pending |-> pending,
     ret |-> ret, sends |-> sends, sleeps |-> sleeps, outcomes |-> outcomes, ctx |-> ctx,
     prev |-> prev, facade |-> facade]

\* A request that keeps lastErr in the Client instead of in a local.
PerCall_LastErrOnClient ==
    {"pc", "call", "fullURL", "jsonBody", "readPos", "attempt", "pending",
     "ret", "sends", "sleeps", "outcomes", "ctx", "prev", "facade"}

\* What every call of request has for itself: its arguments, its locals
\* (fullURL, jsonBody and bodyReader, attempt, lastErr), its position and its
\* result. The Client struct has no field that request writes.
PerCall ==
    {"pc", "call", "fullURL", "jsonBody", "readPos", "attempt", "lastErr", "pending",
     "ret", "sends", "sleeps", "outcomes", "ctx", "prev", "facade"}

\* The scheduler takes the running goroutine off and puts the other one on,
\* between any two steps of either: each finds its own variables again and
\* shares whatever is not per call.
Switch ==
    /\ pc \notin {"new", "panic"}
    /\ parked' = Locals
    /\ pc' = IF "pc" \in PerCall THEN parked.pc ELSE pc
    /\ call' = IF "call" \in PerCall THEN parked.call ELSE call
    /\ fullURL' = IF "fullURL" \in PerCall THEN parked.fullURL ELSE fullURL
    /\ jsonBody' = IF "jsonBody" \in PerCall THEN parked.jsonBody ELSE jsonBody
    /\ readPos' = IF "readPos" \in PerCall THEN parked.readPos ELSE readPos
    /\ attempt' = IF "attempt" \in PerCall THEN parked.attempt ELSE attempt
    /\ lastErr' = IF "lastErr" \in PerCall THEN parked.lastErr ELSE lastErr
    /\ pending' = IF "pending" \in PerCall THEN parked.pending ELSE pending
    /\ ret' = IF "ret" \in PerCall THEN parked.ret ELSE ret
    /\ sends' = IF "sends" \in PerCall THEN parked.sends ELSE sends
    /\ sleeps' = IF "sleeps" \in PerCall THEN parked.sleeps ELSE sleeps
    /\ outcomes' = IF "outcomes" \in PerCall THEN parked.outcomes ELSE outcomes
    /\ ctx' = IF "ctx" \in PerCall THEN parked.ctx ELSE ctx
    /\ prev' = IF "prev" \in PerCall THEN parked.prev ELSE prev
    /\ facade' = IF "facade" \in PerCall THEN parked.facade ELSE facade
    /\ UNCHANGED <<env, config, client, newErr>>

----------------------------------------------------------------------------
(* Specifications *)

\* The retry loop: every retry budget, every sequence of outcomes.
Init == InitWith({NoEnv})

Next ==
    \/ NewClient(RetryConfigs)
    \/ Get({<<"/", "t">>}, {<<>>})
    \/ Post({<<"/", "t">>}, {EmptyMapBody, ChanBody})
    \/ Put({<<"/", "t">>}, {EmptyMapBody})
    \/ Delete({<<"/", "t">>})
    \/ DoFails
    \/ ReadFails
    \/ Respond(Statuses)
    \/ Wake

Spec == Init /\ [][Next]_vars

\* Request building: every endpoint shape and every way of filling params,
\* against a server that answers 200, 404 or 429.
InitBuild == InitWith({NoEnv})

NextBuild ==
    \/ NewClient({KeyedConfig, [KeyedConfig EXCEPT !.BaseURL = <<"c", "u", "/">>]})
    \/ Get(Endpoints, CallerSets)
    \/ TasksList(ListOpts)
    \/ FacadeReturn
    \/ Post(Endpoints, {StatusMapBody})
    \/ CreateFails
    \/ Respond({200, 404, 429})
    \/ Wake

SpecBuild == InitBuild /\ [][NextBuild]_vars

\* Construction: every environment and every configuration, followed by
\* calls against a server that answers 200 or 401 or cannot be reached.
InitConfig == InitWith(Envs)

NextConfig ==
    \/ NewClient(Configs)
    \/ Get({<<"/", "t">>}, {<<>>})
    \/ DoFails
    \/ Respond({200, 401, 429})
    \/ Wake

SpecConfig == InitConfig /\ [][NextConfig]_vars

\* Two calls interleaved on one client with a budget of two attempts.
InitConc == InitWith({NoEnv})

NextConc ==
    \/ NewClient({[KeyedConfig EXCEPT !.MaxRetries = 2]})
    \/ Get({<<"/", "t">>}, {<<>>})
    \/ Post({<<"/", "t">>}, {EmptyMapBody})
    \/ DoFails
    \/ ReadFails
    \/ Respond({200, 429, 500})
    \/ Wake
    \/ Switch

SpecConc == InitConc /\ [][NextConc]_vars

\* The caller cancels the context of a call under way.
InitCancel == InitWith({NoEnv})

NextCancel ==
    \/ NewClient(RetryConfigs)
    \/ Get({<<"/", "t">>}, {<<>>})
    \/ DoFails
    \/ ReadFails
    \/ Respond({200, 429, 500})
    \/ Wake
    \/ Cancel

SpecCancel == InitCancel /\ [][NextCancel]_vars

\* The environment changes after construction.
InitEnv == InitWith(Envs)

NextEnv ==
    \/ NewClient({ZeroConfig, KeyedConfig, [KeyedConfig EXCEPT !.BaseURL = <<"c", "u">>]})
    \/ Get({<<"/", "t">>}, {<<>>})
    \/ DoFails
    \/ Respond({200})
    \/ Wake
    \/ Setenv

SpecEnv == InitEnv /\ [][NextEnv]_vars

\* The facades that decode what Get returns.
InitFacade == InitWith({NoEnv})

NextFacade ==
    \/ NewClient({KeyedConfig})
    \/ Health
    \/ Version
    \/ AgentsList(AgentOpts)
    \/ DoFails
    \/ RespondWith({200, 429}, JsonBodies, RetryAfterHeaders)
    \/ Wake
    \/ FacadeReturn

SpecFacade == InitFacade /\ [][NextFacade]_vars

\* Throttling with every kind of Retry-After header.
InitThrottle == InitWith({NoEnv})

NextThrottle ==
    \/ NewClient({[KeyedConfig EXCEPT !.MaxRetries = m] : m \in 1..MaxRetriesCfg})
    \/ Get({<<"/", "t">>}, {<<>>})
    \/ RespondWith({200, 429}, {<<"a">>}, SignedHeaders)
    \/ Wake

SpecThrottle == InitThrottle /\ [][NextThrottle]_vars

\* One Get after another on one client.
InitAgain == InitWith({NoEnv})

NextAgain ==
    \/ NewClient({[KeyedConfig EXCEPT !.MaxRetries = 2]})
    \/ GetAgain({<<"/", "t">>}, {<<>>, StatusThenLimit})
    \/ DoFails
    \/ RespondWith({200, 429}, RespBodies, {<<>>})
    \/ Wake

SpecAgain == InitAgain /\ [][NextAgain]_vars

\* The retry loop where what is under way comes to an end: httpClient.Do
\* returns (the http.Client has a timeout or the transport gives up),
\* io.ReadAll returns, time.Sleep returns.
InitLive == InitWith({NoEnv})

NextLive ==
    \/ NewClient(RetryConfigs)
    \/ Get({<<"/", "t">>}, {<<>>})
    \/ Post({<<"/", "t">>}, {EmptyMapBody, ChanBody})
    \/ DoFails
    \/ ReadFails
    \/ Respond({200, 404, 429, 500})
    \/ Wake

SpecLive ==
    /\ InitLive
    /\ [][NextLive]_vars
    /\ WF_vars(DoFails \/ ReadFails \/ Respond({200, 404, 429, 500}))
    /\ WF_vars(Wake)

----------------------------------------------------------------------------
(* Properties of the retry loop *)

MaxRetries == IF client = <<>> THEN 0 ELSE client[1].maxRetries

Returned == pc = "done"

Succeeded == Returned /\ ret.err = NilError

NumAttempts == Len(outcomes)

Is429(o) == o.kind = "status" /\ o.status = 429

Is2xx(o) == o.kind = "status" /\ o.status >= 200 /\ o.status <= 299

IsTransport(o) == o.kind = "transport"

\* A status outside 2xx that the outcome table lists under "other".
IsOtherStatus(o) ==
    o.kind = "status" /\ ~(o.status >= 200 /\ o.status <= 299)
                      /\ o.status \notin {401, 404, 422, 429}

\* What the Retry-After header of a 429 asks for, in seconds: its integer, and
\* one second when it is absent or no integer.
RetryAfterSeconds(hdr) ==
    CASE hdr = <<>>           -> 1
      [] hdr = <<"1", "2">>   -> 12
      [] hdr = <<"2", "s">>   -> 1

\* C1: a response with a status outside 2xx, 401, 404, 422 and 429 ends the
\* call: it is the call's last send (the only one when it answers the first
\* attempt), and the call returns the Api error with that status and body.
C1_OtherStatusNotRetried ==
    \A i \in 1..NumAttempts :
        IsOtherStatus(outcomes[i]) =>
            /\ Len(sends) = i
            /\ Returned => /\ ret.err.type = "Error"
                           /\ ret.err.Code = "API_ERROR"
                           /\ ret.err.StatusCode = outcomes[i].status
                           /\ ret.err.Message.arg = outcomes[i].body

\* C2: a call succeeds only if each of its earlier attempts failed in the
\* exchange or met a 429; a 500 is never followed by success.
C2_NoSuccessAfterServerError ==
    Succeeded =>
        \A i \in 1..(NumAttempts - 1) :
            outcomes[i].kind \in {"transport", "readfail"} \/ Is429(outcomes[i])

\* C3: status 401, 404 or 422 on attempt n ends the call at that attempt with
\* AuthenticationError, NotFoundError(endpoint) or ValidationError(body); on
\* the first attempt that is one send and no sleep.
C3_TerminalStatuses ==
    \A i \in 1..NumAttempts :
        LET o == outcomes[i]
        IN  (o.kind = "status" /\ o.status \in {401, 404, 422}) =>
                /\ i = NumAttempts
                /\ Len(sends) = i
                /\ Returned
                /\ ret.body = <<>>
                /\ ret.err.StatusCode = o.status
                /\ o.status = 401 => ret.err.type = "AuthenticationError"
                /\ o.status = 404 => /\ ret.err.type = "NotFoundError"
                                     /\ ret.err.Resource = call.endpoint
                /\ o.status = 422 => /\ ret.err.type = "ValidationError"
                                     /\ ret.err.Details = o.body
                /\ i = 1 => sleeps = <<>>

C3_Witness ==
    /\ Returned
    /\ NumAttempts = 2
    /\ Is429(outcomes[1])
    /\ outcomes[2].kind = "status" /\ outcomes[2].status = 422 /\ outcomes[2].body = <<"b">>
    /\ ret.err.type = "ValidationError"
    /\ MaxRetries = 3

\* The first k attempts met 429 and attempt k+1 a 2xx.
ThrottledThenOk ==
    /\ Returned
    /\ NumAttempts >= 1
    /\ Is2xx(outcomes[NumAttempts])
    /\ \A i \in 1..(NumAttempts - 1) : Is429(outcomes[i])

\* C4: k 429s (k < maxRetries) followed by a 2xx: k+1 sends, k sleeps, the
\* i-th of them after attempt i-1 and as long as the Retry-After of the i-th
\* 429 says (1 second when absent), and the body of the last response returned.
C4_ThrottledThenSuccess ==
    ThrottledThenOk =>
        /\ NumAttempts <= MaxRetries
        /\ Len(sends) = NumAttempts
        /\ Len(sleeps) = NumAttempts - 1
        /\ \A i \in 1..Len(sleeps) :
            /\ sleeps[i].after = i - 1
            /\ sleeps[i].d = RetryAfterSeconds(outcomes[i].hdr)
        /\ ret = [body |-> outcomes[NumAttempts].body, err |-> NilError]

C4_Witness ==
    /\ ThrottledThenOk
    /\ NumAttempts = 3
    /\ outcomes[1].hdr = <<"1", "2">>
    /\ outcomes[2].hdr = <<>>
    /\ outcomes[3].body = <<"b">>
    /\ sleeps = <<[after |-> 0, d |-> 12], [after |-> 1, d |-> 1]>>

\* Every attempt of the call met 429.
AlwaysThrottled ==
    /\ Returned
    /\ NumAttempts >= 1
    /\ \A i \in 1..NumAttempts : Is429(outcomes[i])

\* C5: when every attempt meets 429 the call makes maxRetries sends and
\* maxRetries-1 sleeps, none after the last 429, and returns RateLimitError
\* with the RetryAfter of the last response.
C5_AlwaysThrottled ==
    AlwaysThrottled =>
        /\ Len(sends) = MaxRetries
        /\ Len(sleeps) = MaxRetries - 1
        /\ \A i \in 1..Len(sleeps) : sleeps[i].after < MaxRetries - 1
        /\ ret.err.type = "RateLimitError"
        /\ ret.err.StatusCode = 429
        /\ ret.err.RetryAfter = RetryAfterSeconds(outcomes[NumAttempts].hdr)

C5_Witness ==
    /\ AlwaysThrottled
    /\ MaxRetries = 3
    /\ outcomes[2].hdr = <<>>
    /\ outcomes[3].hdr = <<"1", "2">>
    /\ ret.err.RetryAfter = 12

\* Every attempt so far failed in the exchange (Do returned an error).
AllTransport == NumAttempts >= 1 /\ \A i \in 1..NumAttempts : IsTransport(outcomes[i])

\* C6: when every attempt fails at the transport level, the sleep after
\* attempt i is 2^i seconds, the call makes maxRetries sends and returns a
\* ConnectionError.
C6_ExponentialBackoff ==
    AllTransport =>
        /\ \A i \in 1..Len(sleeps) : sleeps[i] = [after |-> i - 1, d |-> 2 ^ (i - 1)]
        /\ \A i \in 1..(NumAttempts - 1) : Len(sleeps) >= i
        /\ Returned => /\ Len(sends) = MaxRetries
                       /\ ret.err.type = "ConnectionError"
                       /\ ret.body = <<>>

C6_Witness ==
    /\ AllTransport
    /\ Returned
    /\ MaxRetries = 3
    /\ Len(sends) = 3
    /\ sleeps[2].d = 2
    /\ sleeps[3].d = 4

\* C7: no sleep follows a transport failure on the last attempt: every sleep
\* comes after an attempt n < maxRetries-1, and a call whose every attempt
\* fails at the transport level has slept maxRetries-1 times when it returns.
C7_NoSleepAfterLastAttempt ==
    /\ \A i \in 1..Len(sleeps) : sleeps[i].after < MaxRetries - 1
    /\ (AllTransport /\ Returned) => Len(sleeps) = MaxRetries - 1

\* C8: every send of a call transmits the request the call built: the method,
\* the URL and the whole serialized body of the first send.
C8_SameRequestEverySend ==
    \A i \in 1..Len(sends) :
        /\ sends[i].method = call.method
        /\ sends[i].url = fullURL
        /\ sends[i].body = jsonBody

----------------------------------------------------------------------------
(* Properties of request building *)

\* Where key k starts in the query string of url; 0 when it is not there.
KeyPos(url, k) ==
    LET a == IndexOf(url, <<"?">> \o k \o <<"=">>)
        b == IndexOf(url, <<"&">> \o k \o <<"=">>)
    IN  IF a > 0 THEN a ELSE b

\* The part of url after its "?".
QueryOf(url) ==
    LET q == IndexOf(url, <<"?">>) IN IF q = 0 THEN <<>> ELSE SubSeq(url, q + 1, Len(url))

\* The caller Set each key once.
DistinctKeys(sets) == \A i, j \in 1..Len(sets) : i # j => sets[i][1] # sets[j][1]

----------------------------------------------------------------------------
(* Properties of construction *)

Constructed == pc # "new"

\* C10: with no APIKey in the config (nil config included) and none in the
\* environment, NewClient returns nil and an AuthenticationError and nothing
\* is ever sent; every client NewClient returns has a non-empty credential.
C10_CredentialRequired ==
    Constructed =>
        /\ (config.APIKey = <<>> /\ env.key = <<>>) =>
                /\ client = <<>>
                /\ newErr.type = "AuthenticationError"
                /\ newErr.StatusCode = 401
                /\ sends = <<>>
        /\ client # <<>> => /\ client[1].apiKey # <<>>
                            /\ newErr = NilError
        /\ client = <<>> => sends = <<>>

C10_Witness ==
    /\ config.isNil
    /\ env.key = <<>>
    /\ client = <<>>
    /\ newErr.type = "AuthenticationError"
    /\ pc = "panic"
    /\ call.method = "GET"

\* C11: whatever base address NewClient accepted (explicit, from
\* BLACKROAD_API_URL or the default, also one that ends in two or more "/"),
\* the baseURL stored in the constructed client does not end with "/".
C11_NoTrailingSlash ==
    (Constructed /\ client # <<>>) =>
        LET b == client[1].baseURL
        IN  b # <<>> => b[Len(b)] # "/"

\* C12: every client NewClient returns has maxRetries >= 1, whatever integer
\* ClientConfig.MaxRetries held (negative ones included); MaxRetries = 0
\* resolves to 3 and Timeout = 0 to 30 seconds.
C12_MaxRetriesAtLeastOne ==
    (Constructed /\ client # <<>>) =>
        /\ client[1].maxRetries >= 1
        /\ config.MaxRetries = 0 => client[1].maxRetries = 3
        /\ config.Timeout = 0 => client[1].timeout = 30

\* The address NewClient starts from, by the precedence the specification
\* states: explicit, else environment, else the built-in default.
PreferredURL ==
    IF config.BaseURL # <<>> THEN config.BaseURL
    ELSE IF env.url # <<>> THEN env.url
    ELSE <<"h", "t", "t", "p", "s", ":", "/", "/", "a", "p", "i", ".",
           "b", "l", "a", "c", "k", "r", "o", "a", "d", ".", "i", "o", "/", "v", "1">>

\* C13: strict precedence in NewClient.  A non-empty explicit APIKey / BaseURL
\* is used even when the environment variable is set; otherwise the
\* environment variable is used; otherwise the base address is
\* https://api.blackroad.io/v1 and the credential has no fallback (no client).
\* The stored address is the chosen one, less at most one trailing "/".
C13_Precedence ==
    Constructed =>
        /\ config.APIKey # <<>> => /\ client # <<>>
                                   /\ client[1].apiKey = config.APIKey
        /\ (config.APIKey = <<>> /\ env.key # <<>>) => /\ client # <<>>
                                                       /\ client[1].apiKey = env.key
        /\ (config.APIKey = <<>> /\ env.key = <<>>) => client = <<>>
        /\ client # <<>> =>
            \/ client[1].baseURL = PreferredURL
            \/ client[1].baseURL \o <<"/">> = PreferredURL
        /\ \A n \in 1..Len(sends) :
            /\ sends[n].Authorization.arg \in {config.APIKey, env.key} \ {<<>>}
            /\ config.APIKey # <<>> => sends[n].Authorization.arg = config.APIKey

C13_Witness ==
    /\ config.APIKey = <<"c", "k">>
    /\ env.key = <<"e", "k">>
    /\ config.BaseURL = <<"c", "u">>
    /\ env.url = <<"e", "u", "/">>
    /\ client # <<>>
    /\ client[1].apiKey = <<"c", "k">>
    /\ client[1].baseURL = <<"c", "u">>
    /\ Len(sends) = 1
    /\ sends[1].Authorization.arg = <<"c", "k">>
    /\ HasPrefix(sends[1].url, <<"c", "u", "/">>)

----------------------------------------------------------------------------
(* Properties of every send *)

\* C14: every send of request, the first and every retry alike, carries
\* Authorization: Bearer <the credential NewClient resolved>,
\* Content-Type: application/json and User-Agent: blackroad-go/1.0.0.
C14_HeadersOnEverySend ==
    \A n \in 1..Len(sends) :
        /\ sends[n].Authorization.fmt = "Bearer %s"
        /\ sends[n].Authorization.arg =
                (IF config.APIKey # <<>> THEN config.APIKey ELSE env.key)
        /\ sends[n].Authorization.arg # <<>>
        /\ sends[n].ContentType = "application/json"
        /\ sends[n].UserAgent = "blackroad-go/1.0.0"

C14_Witness ==
    /\ config.APIKey = <<>>
    /\ env.key = <<"e", "k">>
    /\ Len(sends) = 3
    /\ IsTransport(outcomes[1])
    /\ Is429(outcomes[2])
    /\ sends[3].Authorization = [fmt |-> "Bearer %s", arg |-> <<"e", "k">>]
    /\ sends[3].UserAgent = "blackroad-go/1.0.0"

----------------------------------------------------------------------------
(* Properties of the attempt budget *)

\* The i-th outcome ends the call: a 2xx success, a 401/404/422 error, or the
\* 429 that arrives on the last attempt of the budget.
IsTerminalOutcome(i) ==
    LET o == outcomes[i]
    IN  \/ Is2xx(o)
        \/ o.kind = "status" /\ o.status \in {401, 404, 422}
        \/ Is429(o) /\ i = MaxRetries

\* C15: at every point of a call the number of sends so far is at most
\* maxRetries, and once the call has reached a terminal outcome (2xx, or
\* 401/404/422/final 429) it has returned and no send or sleep follows that
\* outcome, whatever budget remains.
C15_BudgetAndTerminal ==
    /\ Len(sends) <= MaxRetries
    /\ \A i \in 1..Len(outcomes) :
        IsTerminalOutcome(i) =>
            /\ Returned
            /\ i = Len(outcomes)
            /\ Len(sends) = i
            /\ \A k \in 1..Len(sleeps) : sleeps[k].after < i - 1

----------------------------------------------------------------------------
(* Properties of concurrent calls *)

\* What one call of request does by itself when its attempts meet the
\* outcomes outs, from the i-th on: the sleeps it makes, whether it has
\* returned and what, and how many of the outcomes it got to see. le and sl
\* are lastErr and the sleeps so far; attempt i - 1 meets outs[i].
RECURSIVE Alone(_, _, _, _, _, _)
Alone(outs, i, le, sl, budget, endpoint) ==
    IF i > budget
    THEN [sleeps |-> sl, done |-> TRUE, used |-> i - 1,
          ret |-> [body |-> <<>>, err |-> AfterLoop(le)]]
    ELSE IF i > Len(outs)
    THEN [sleeps |-> sl, done |-> FALSE, used |-> i - 1, ret |-> NoRet]
    ELSE LET o == outs[i]
             att == i - 1
         IN  IF o.kind = "transport"
             THEN Alone(outs, i + 1, NewConnectionError("request failed", "transport"),
                        Append(sl, [after |-> att, d |-> Backoff(att)]), budget, endpoint)
             ELSE IF o.kind = "readfail"
             THEN Alone(outs, i + 1, NewConnectionError("failed to read response", "read"),
                        sl, budget, endpoint)
             ELSE IF IsSuccess(o.status)
             THEN [sleeps |-> sl, done |-> TRUE, used |-> i,
                   ret |-> [body |-> o.body, err |-> NilError]]
             ELSE IF TerminalStatus(o.status)
             THEN [sleeps |-> sl, done |-> TRUE, used |-> i,
                   ret |-> [body |-> <<>>, err |-> TerminalError(o.status, endpoint, o.body)]]
             ELSE IF o.status = 429
             THEN IF RetriesLeft(att, budget)
                  THEN Alone(outs, i + 1, le,
                             Append(sl, [after |-> att, d |-> RetryAfterOf(o.hdr)]),
                             budget, endpoint)
                  ELSE [sleeps |-> sl, done |-> TRUE, used |-> i,
                        ret |-> [body |-> <<>>, err |-> NewRateLimitError(RetryAfterOf(o.hdr))]]
             ELSE Alone(outs, i + 1, NewApiError(o.status, o.body), sl, budget, endpoint)

\* The call with the variables g went as it would have gone alone: as many
\* attempts as outcomes, the same sleeps, and the same result once returned.
AsAlone(g) ==
    (g.pc \in {"attempt", "sleep", "done"}
        /\ (g.call.body.kind = "nil" \/ Marshal(g.call.body).ok)) =>
        LET a == Alone(g.outcomes, 1, NilError, <<>>, MaxRetries, g.call.endpoint)
        IN  /\ Len(g.sends) = Len(g.outcomes)
            /\ a.used = Len(g.outcomes)
            /\ g.sleeps = a.sleeps
            /\ g.pc = "done" => (a.done /\ g.ret = a.ret)
            /\ g.pc = "attempt" => ~a.done
            /\ g.pc = "attempt" => g.attempt = Len(g.outcomes)

\* C16: however two concurrent calls of request on one Client interleave,
\* each makes the attempts and sleeps and returns the result it would alone
\* with the same outcomes, and apiKey, baseURL, timeout and maxRetries of the
\* client stay as NewClient set them.
C16_CallsIndependent ==
    /\ AsAlone(Locals)
    /\ AsAlone(parked)
    /\ (Constructed /\ client # <<>>) =>
        /\ client[1].apiKey = <<"c", "k">>
        /\ client[1].baseURL = PreferredURL
        /\ client[1].timeout = 30
        /\ client[1].maxRetries = (IF config.MaxRetries = 0 THEN 3 ELSE config.MaxRetries)

\* Both calls under way at once: one has failed with a 500 and then on the
\* transport, the other was throttled and then answered.
C16_Witness ==
    /\ pc = "done"
    /\ Len(outcomes) = 2
    /\ IsOtherStatus(outcomes[1])
    /\ IsTransport(outcomes[2])
    /\ ret.err.type = "ConnectionError"
    /\ parked.pc = "done"
    /\ Len(parked.outcomes) = 2
    /\ Is429(parked.outcomes[1])
    /\ Is2xx(parked.outcomes[2])
    /\ parked.ret.err = NilError
    /\ Len(parked.sleeps) = 1

----------------------------------------------------------------------------
(* Properties of cancellation *)

\* C17: when the context is cancelled while attempt n is in flight (in
\* httpClient.Do, or in io.ReadAll once Do has returned the response), that
\* attempt counts as a transport failure: it uses up one attempt, the
\* 2^n-second backoff follows it, the call retries while attempts remain, and
\* when the remaining attempts fail the same way it ends with a
\* ConnectionError.
C17_CancelledAttemptBacksOff ==
    (ctx.done /\ ctx.during \in {"send", "read"}) =>
        LET n == ctx.at
        IN  /\ \A i \in (n + 1)..Len(outcomes) : outcomes[i].kind \in {"transport", "readfail"}
            /\ Len(outcomes) > n => /\ Len(sends) > n
                                    /\ \E k \in 1..Len(sleeps) :
                                            sleeps[k] = [after |-> n, d |-> 2 ^ n]
            /\ Returned => /\ NumAttempts = MaxRetries
                           /\ ret.err.type = "ConnectionError"
                           /\ ret.body = <<>>

----------------------------------------------------------------------------
(* Properties of the environment *)

\* C18: the environment is read in NewClient only. Setting or unsetting
\* BLACKROAD_API_KEY or BLACKROAD_API_URL once the client exists changes
\* neither the credential nor the base address of any later send: they stay
\* the explicit ones or the ones the environment held at construction.
C18_EnvReadOnce ==
    (Constructed /\ client # <<>>) =>
        /\ client[1].apiKey = (IF config.APIKey # <<>> THEN <<"c", "k">> ELSE <<"e", "k">>)
        /\ client[1].baseURL \in
              (IF config.BaseURL # <<>>
               THEN {<<"c", "u">>}
               ELSE {<<"e", "u">>,
                     <<"h", "t", "t", "p", "s", ":", "/", "/", "a", "p", "i", ".", "b", "l",
                       "a", "c", "k", "r", "o", "a", "d", ".", "i", "o", "/", "v", "1">>})
        /\ \A n \in 1..Len(sends) :
            /\ sends[n].Authorization.arg = client[1].apiKey
            /\ sends[n].url = client[1].baseURL \o <<"/", "t">>

\* Two sends with the key and the address of the environment at
\* construction, the second one made after both variables were changed.
C18_Witness ==
    /\ config.APIKey = <<>>
    /\ config.BaseURL = <<>>
    /\ env = [key |-> <<"n", "k">>, url |-> <<"n", "u">>]
    /\ Returned
    /\ Len(sends) = 2
    /\ sends[2].Authorization.arg = <<"e", "k">>
    /\ sends[2].url = <<"e", "u", "/", "t">>

----------------------------------------------------------------------------
(* Properties of the facades *)

\* C19: when the answer to a facade that decodes (Health, Version,
\* Agents.List, Tasks.List) is a 2xx whose body is not the JSON expected, the
\* facade returns a ConnectionError ("failed to parse ... response") and no
\* value, and nothing is sent again for it: the sends are those of the
\* request up to that 2xx, one send when the 2xx answers the first attempt.
\* A body that decodes gives a value and no error.
C19_UndecodableSuccess ==
    (facade.state = "returned" /\ ret.err = NilError) =>
        /\ Returned
        /\ ret.body \in {<<"a">>, <<>>, <<"[", "]">>, <<"b">>} =>
            /\ facade.err.type = "ConnectionError"
            /\ facade.err.Message.fmt =
                (CASE facade.name = "Health" -> "failed to parse health response"
                   [] facade.name = "Version" -> "failed to parse version response"
                   [] facade.name = "Agents.List" -> "failed to parse agents response"
                   [] facade.name = "Tasks.List" -> "failed to parse tasks response")
            /\ ~facade.value.present
            /\ Len(sends) = NumAttempts
            /\ Is2xx(outcomes[NumAttempts])
            /\ \A i \in 1..(NumAttempts - 1) : ~Is2xx(outcomes[i])
            /\ Is2xx(outcomes[1]) => Len(sends) = 1
        /\ ret.body = <<"{", "}">> => /\ facade.err = NilError
                                      /\ facade.value.present

C19_Witness ==
    /\ facade.state = "returned"
    /\ facade.name = "Agents.List"
    /\ call.sets # <<>>
    /\ Len(sends) = 1
    /\ outcomes[1].status = 200
    /\ ret = [body |-> <<"[", "]">>, err |-> NilError]
    /\ facade.err.type = "ConnectionError"
    /\ ~facade.value.present

----------------------------------------------------------------------------
(* Properties of the Retry-After header *)

\* What each header of the model means by the rule of the specification: the
\* integer it holds, and 1 when it is absent or holds no integer.
HeaderSeconds(hdr) ==
    CASE hdr = <<>>                -> 1
      [] hdr = <<"1", "2">>        -> 12
      [] hdr = <<"2", "s">>        -> 1
      [] hdr = <<"+", "3">>        -> 3
      [] hdr = <<"-", "1">>        -> 0 - 1
      [] hdr = <<"0">>             -> 0
      [] hdr = <<" ", "7">>        -> 1
      [] hdr = <<"1", ".", "5">>   -> 1

\* C20: on a 429 the delay request sleeps before the retry, and the
\* RetryAfter of the RateLimitError it returns when the 429 answers the last
\* attempt, is the integer of the Retry-After header when there is one that
\* parses, and 1 when the header is absent or does not parse.
C20_RetryAfterValue ==
    \A i \in 1..NumAttempts :
        Is429(outcomes[i]) =>
            IF i < MaxRetries
            THEN \E k \in 1..Len(sleeps) :
                    sleeps[k] = [after |-> i - 1, d |-> HeaderSeconds(outcomes[i].hdr)]
            ELSE /\ Returned
                 /\ ret.err.type = "RateLimitError"
                 /\ ret.err.RetryAfter = HeaderSeconds(outcomes[i].hdr)

C20_Witness ==
    /\ MaxRetries = 2
    /\ Returned
    /\ NumAttempts = 2
    /\ Is429(outcomes[1])
    /\ outcomes[1].hdr = <<"+", "3">>
    /\ Is429(outcomes[2])
    /\ outcomes[2].hdr = <<" ", "7">>
    /\ sleeps = <<[after |-> 0, d |-> 3]>>
    /\ ret.err.type = "RateLimitError"
    /\ ret.err.RetryAfter = 1

----------------------------------------------------------------------------
(* Properties of the URL *)

\* The part of url before its "?".
PathOf(url) ==
    LET q == IndexOf(url, <<"?">>) IN IF q = 0 THEN url ELSE SubSeq(url, 1, q - 1)

\* e without the "/" characters it starts with.
RECURSIVE StripSlashes(_)
StripSlashes(e) == IF e # <<>> /\ e[1] = "/" THEN StripSlashes(Tail(e)) ELSE e

\* C21: whether the endpoint starts with no, one or several "/", the URL
\* request builds is baseURL, one "/", and the endpoint without its leading
\* separators: never base//path, never basepath.
C21_OneSeparator ==
    (client # <<>> /\ call.method # "") =>
        PathOf(fullURL) = client[1].baseURL \o <<"/">> \o StripSlashes(call.endpoint)

----------------------------------------------------------------------------
(* Properties of repeated calls *)

\* A successful Get that follows a successful Get with the same endpoint and
\* the same params.
RepeatedGet ==
    /\ prev.kept
    /\ prev.call = call
    /\ call.method = "GET"
    /\ prev.ret.err = NilError
    /\ Succeeded

\* C22: of two successful Get calls in sequence with the same endpoint and
\* params, the second makes a send of its own and returns what the server
\* answered to it: the payload of the first when the server answers the
\* same, and not the payload of the first when the server answers otherwise.
C22_NoClientCache ==
    RepeatedGet =>
        /\ Len(sends) >= 1
        /\ sends[Len(sends)].url = fullURL
        /\ Is2xx(outcomes[NumAttempts])
        /\ ret.body = outcomes[NumAttempts].body
        /\ outcomes[NumAttempts].body = prev.served => ret.body = prev.ret.body
        /\ outcomes[NumAttempts].body # prev.served => ret.body # prev.ret.body

C22_Witness ==
    /\ RepeatedGet
    /\ call.sets = StatusThenLimit
    /\ prev.ret.body = <<"a">>
    /\ prev.served = <<"a">>
    /\ Len(sends) = 1
    /\ outcomes[1].body = <<"a">>
    /\ ret.body = <<"a">>

----------------------------------------------------------------------------
(* Properties of termination *)

\* The call got past building its request: the body was marshalled and the
\* loop was entered or found empty.
Built ==
    /\ client # <<>>
    /\ pc \in {"attempt", "sleep", "done"}
    /\ call.body.kind = "nil" \/ Marshal(call.body).ok

\* The sends and sleeps of the call so far fit send, (sleep, send)*: there is
\* a sleep before every send but the first, every sleep comes after a send,
\* and a call that has returned made a send and did not end on a sleep.
InShape ==
    Built =>
        /\ \A n \in 2..Len(sends) : \E k \in 1..Len(sleeps) : sleeps[k].after = n - 2
        /\ \A k \in 1..Len(sleeps) : sleeps[k].after < Len(sends)
        /\ Returned => /\ Len(sends) >= 1
                       /\ \A k \in 1..Len(sleeps) : sleeps[k].after < Len(sends) - 1

\* C23: every call of request terminates. Whatever the budget and whatever
\* each attempt meets, when every send and every sleep comes to an end the
\* call returns a payload or an error, and it goes build, send,
\* (sleep, send)*, terminal.
C23_TerminatesInShape ==
    /\ (pc \in {"attempt", "sleep"}) ~> Returned
    /\ [](Returned => (ret.err = NilError \/ ret.err.type # "nil"))
    /\ []InShape

----------------------------------------------------------------------------
(* The JavaScript executor: BlackRoadClient, src/ruby/lib/blackroad/tasks.rb
   lines 498-642, with the error classes of src/javascript/src/errors.ts.
   It runs on the variables of the Go executor: client holds the constructed
   BlackRoadClient, pending and the sleeps are in milliseconds. *)

DEFAULT_TIMEOUT == 30000

DEFAULT_MAX_RETRIES == 3

DEFAULT_BASE_URL == defaultBaseURL

\* errors.ts: the classes, as records of the shape of the Go errors
BlackRoadError(message, arg, code, statusCode) ==
    MkError("BlackRoadError", message, arg, code, statusCode)

AuthenticationError(message) ==
    MkError("AuthenticationError", message, NoArg, "AUTH_ERROR", 401)

NotFoundError(resource) ==
    MkError("NotFoundError", "Resource not found: %s", resource, "NOT_FOUND", 404)

ValidationError(errorBody) ==
    MkError("ValidationError", "Validation error: %s", errorBody, "VALIDATION_ERROR", 422)

RateLimitError(retryAfter) ==
    [MkError("RateLimitError", "Rate limit exceeded", NoArg, "RATE_LIMIT", 429)
        EXCEPT !.RetryAfter = retryAfter]

ConnectionError(message, cause) ==
    [MkError("ConnectionError", message, NoArg, "CONNECTION_ERROR", 0)
        EXCEPT !.Cause = cause]

\* The configurations the constructor is explored under; a field left out of
\* the ClientConfig is undefined, which || takes like 0 and ''.
JsConfigs ==
    {[apiKey |-> k, baseUrl |-> <<>>, timeout |-> 0, maxRetries |-> m] :
        k \in {<<>>, CfgKey}, m \in (0 - 1)..MaxRetriesCfg}

\* parseInt(s, 10): white space in front is skipped, then an optional sign,
\* then the longest run of digits; what follows the digits is ignored, and
\* without a digit the result is NaN (nan, whatever val).
RECURSIVE DigitPrefix(_)
DigitPrefix(s) ==
    IF s = <<>> \/ ~IsDigit(s[1]) THEN <<>> ELSE <<s[1]>> \o DigitPrefix(Tail(s))

RECURSIVE SkipSpace(_)
SkipSpace(s) == IF s # <<>> /\ s[1] = " " THEN SkipSpace(Tail(s)) ELSE s

parseInt(s) ==
    LET t      == SkipSpace(s)
        signed == t # <<>> /\ t[1] \in {"+", "-"}
        digs   == DigitPrefix(IF signed THEN Tail(t) ELSE t)
    IN  IF digs = <<>> THEN [nan |-> TRUE, val |-> 0]
        ELSE [nan |-> FALSE,
              val |-> IF signed /\ t[1] = "-" THEN 0 - DigitsValue(digs)
                      ELSE DigitsValue(digs)]

\* line 603: parseInt(response.headers.get('Retry-After') || '1', 10); the
\* absent header is null and the empty one is '', both taken for '1'.
retryAfterOf(hdr) == parseInt(IF hdr = <<>> THEN <<"1">> ELSE hdr)

\* The argument of sleep: retryAfter * 1000, NaN staying NaN; setTimeout
\* takes NaN for 0.
Millis(n) == IF n.nan THEN 0 ELSE n.val * 1000

\* JSON.stringify of the data of the model: the empty object.
JSONStringify(data) == <<"{", "}">>

\* response.json(): the body parsed as any JSON value; a body that is not
\* JSON, the empty one included, rejects with a SyntaxError.
ResponseJson(b) ==
    IF JSONKind(b) # "invalid"
    THEN [ok |-> TRUE, value |-> b]
    ELSE [ok |-> FALSE, value |-> <<>>]

\* lines 530-547: the constructor; it throws without a credential, and no
\* BlackRoadClient exists then.
JsConstructor(configs) ==
    /\ pc = "new"
    /\ \E cfg \in configs :
        LET apiKey == IF cfg.apiKey # <<>> THEN cfg.apiKey ELSE env.key
            chosen == IF cfg.baseUrl # <<>> THEN cfg.baseUrl
                      ELSE IF env.url # <<>> THEN env.url
                      ELSE DEFAULT_BASE_URL
        IN  /\ config' = cfg
            /\ IF apiKey = <<>>
               THEN /\ client' = <<>>
                    /\ newErr' = AuthenticationError("API key required. Set BLACKROAD_API_KEY environment variable or pass apiKey in config.")
               ELSE /\ client' =
                        <<[apiKey     |-> apiKey,
                           baseUrl    |-> TrimSuffix(chosen, <<"/">>),
                           timeout    |-> IF cfg.timeout # 0 THEN cfg.timeout
                                          ELSE DEFAULT_TIMEOUT,
                           maxRetries |-> IF cfg.maxRetries # 0 THEN cfg.maxRetries
                                          ELSE DEFAULT_MAX_RETRIES]>>
                    /\ newErr' = NilError
    /\ pc' = "idle"
    /\ UNCHANGED <<env, call, fullURL, jsonBody, readPos, attempt, lastErr, pending, ret,
                   sends, sleeps, outcomes, ctx, prev, facade, parked>>

\* lines 552-578: request up to the first test of the loop condition, with
\* options.params left out; line 637 when the loop does not run.
JsRequest(methods, endpoints, datas) ==
    /\ pc \in {"idle", "done"}
    /\ client # <<>>
    /\ \E method \in methods, endpoint \in endpoints, data \in datas :
        /\ call' = [method |-> method, endpoint |-> endpoint, body |-> data, sets |-> <<>>]
        /\ fullURL' = client[1].baseUrl \o <<"/">> \o TrimPrefix(endpoint, <<"/">>)
        /\ jsonBody' = IF data.kind = "nil" THEN <<>> ELSE JSONStringify(data)
    /\ CallVarsReset
    /\ IF 0 < client[1].maxRetries
       THEN /\ ret' = NoRet
            /\ pc' = "attempt"
       ELSE /\ ret' = [body |-> <<>>,
                       err |-> BlackRoadError("Max retries exceeded", NoArg, "UNKNOWN_ERROR", 0)]
            /\ pc' = "done"
    /\ UNCHANGED <<env, config, client, newErr, parked, ctx, prev, facade>>

\* lines 572-576 and 583-588: what fetch is called with
FetchInit ==
    [method        |-> call.method,
     url           |-> fullURL,
     body          |-> jsonBody,
     Authorization |-> [fmt |-> "Bearer %s", arg |-> client[1].apiKey],
     ContentType   |-> "application/json",
     UserAgent     |-> "blackroad-js/1.0.0"]

\* lines 615-634: the catch clause for an error that is no BlackRoadError,
\* after attempt++ and the loop condition when it sleeps and continues
CatchRetry(message, cause) ==
    IF attempt < client[1].maxRetries - 1
    THEN /\ sleeps' = Append(sleeps, [after |-> attempt, d |-> (2 ^ attempt) * 1000])
         /\ pending' = (2 ^ attempt) * 1000
         /\ pc' = "sleep"
         /\ ret' = ret
    ELSE /\ ret' = [body |-> <<>>, err |-> ConnectionError(message, cause)]
         /\ pc' = "done"
         /\ UNCHANGED <<sleeps, pending>>

\* lines 580-588 and 615-634: fetch rejects, aborted by the timer (AbortError)
\* or failed in the network (TypeError)
JsFetchFails ==
    /\ pc = "attempt"
    /\ sends' = Append(sends, FetchInit)
    /\ outcomes' = Append(outcomes, Outcome("transport", 0, <<>>, <<>>))
    /\ \E name \in {"AbortError", "TypeError"} :
        IF name = "AbortError"
        THEN CatchRetry("Request timed out", name)
        ELSE CatchRetry("Connection failed: %s", name)
    /\ UNCHANGED <<env, config, client, newErr, parked, ctx, prev, facade,
                   call, fullURL, jsonBody, readPos, attempt, lastErr>>

\* lines 583-614: fetch resolves with a response
JsRespondWith(statuses, bodies, headers) ==
    /\ pc = "attempt"
    /\ sends' = Append(sends, FetchInit)
    /\ \E status \in statuses, hdr \in headers, respBody \in bodies :
        /\ hdr # <<>> => status = 429
        /\ outcomes' = Append(outcomes, Outcome("status", status, hdr, respBody))
        /\ IF IsSuccess(status)
           THEN IF ResponseJson(respBody).ok
                THEN /\ ret' = [body |-> ResponseJson(respBody).value, err |-> NilError]
                     /\ pc' = "done"
                     /\ UNCHANGED <<sleeps, pending>>
                ELSE CatchRetry("Connection failed: %s", "SyntaxError")
           ELSE IF status = 401
           THEN /\ ret' = [body |-> <<>>, err |-> AuthenticationError("Invalid API key")]
                /\ pc' = "done"
                /\ UNCHANGED <<sleeps, pending>>
           ELSE IF status = 404
           THEN /\ ret' = [body |-> <<>>, err |-> NotFoundError(call.endpoint)]
                /\ pc' = "done"
                /\ UNCHANGED <<sleeps, pending>>
           ELSE IF status = 422
           THEN /\ ret' = [body |-> <<>>, err |-> ValidationError(respBody)]
                /\ pc' = "done"
                /\ UNCHANGED <<sleeps, pending>>
           ELSE IF status = 429
           THEN IF attempt < client[1].maxRetries - 1
                THEN /\ sleeps' = Append(sleeps, [after |-> attempt,
                                                  d |-> Millis(retryAfterOf(hdr))])
                     /\ pending' = Millis(retryAfterOf(hdr))
                     /\ pc' = "sleep"
                     /\ ret' = ret
                ELSE /\ ret' = [body |-> <<>>, err |-> RateLimitError(retryAfterOf(hdr))]
                     /\ pc' = "done"
                     /\ UNCHANGED <<sleeps, pending>>
           ELSE /\ ret' = [body |-> <<>>,
                           err |-> BlackRoadError("API error (%s)", respBody, "API_ERROR", status)]
                /\ pc' = "done"
                /\ UNCHANGED <<sleeps, pending>>
    /\ UNCHANGED <<env, config, client, newErr, parked, ctx, prev, facade,
                   call, fullURL, jsonBody, readPos, attempt, lastErr>>

\* lines 640-642 and 578: the timer of sleep fires, continue, attempt++ and
\* the loop condition; line 637 when it fails
JsWake ==
    /\ pc = "sleep"
    /\ pending' = 0
    /\ attempt' = attempt + 1
    /\ IF attempt + 1 < client[1].maxRetries
       THEN /\ pc' = "attempt"
            /\ ret' = ret
       ELSE /\ pc' = "done"
            /\ ret' = [body |-> <<>>,
                       err |-> BlackRoadError("Max retries exceeded", NoArg, "UNKNOWN_ERROR", 0)]
    /\ UNCHANGED <<env, config, client, newErr, parked, ctx, prev, facade,
                   call, fullURL, jsonBody, readPos, lastErr, sends, sleeps, outcomes>>

\* The statuses and bodies the JavaScript executor is explored under.
JsStatuses == {200, 204, 401, 404, 422, 429, 500}

JsBodies == {<<"{", "}">>, <<"a">>, <<>>}

InitJS == InitWith({NoEnv})

NextJS ==
    \/ JsConstructor(JsConfigs)
    \/ JsRequest({"GET", "POST"}, {<<"/", "t">>}, {NilBody, EmptyMapBody})
    \/ JsFetchFails
    \/ JsRespondWith(JsStatuses, JsBodies, RetryAfterHeaders)
    \/ JsWake

SpecJS == InitJS /\ [][NextJS]_vars

----------------------------------------------------------------------------
(* Properties of the JavaScript executor *)

\* The outcome class of a returned error, nil being success; the generic
\* errors of both executors (API error, max retries exceeded) are Api.
ClassOf(err) ==
    CASE err = NilError -> "success"
      [] err.type = "AuthenticationError" -> "Authentication"
      [] err.type = "NotFoundError" -> "NotFound"
      [] err.type = "ValidationError" -> "Validation"
      [] err.type = "RateLimitError" -> "RateLimit"
      [] err.type = "ConnectionError" -> "Connection"
      [] OTHER -> "Api"

\* What Client.request of Go does with the maxRetries and the outcomes the
\* running call of the JavaScript executor has met so far.
GoOnSame == Alone(outcomes, 1, NilError, <<>>, MaxRetries, call.endpoint)

\* C25: Client.request of Go and BlackRoadClient.request of JavaScript are the
\* same retry state machine: with the same maxRetries and the same outcomes
\* attempt by attempt (transport failure, or status with Retry-After) both
\* send as many times, sleep the same durations in the same order, and
\* return the same outcome class.
C25_ExecutorsEquivalent ==
    (pc \in {"attempt", "sleep", "done"}) =>
        /\ GoOnSame.used = Len(sends)
        /\ Returned <=> GoOnSame.done
        /\ Returned =>
            /\ ClassOf(ret.err) = ClassOf(GoOnSame.ret.err)
            /\ Len(sleeps) = Len(GoOnSame.sleeps)
            /\ \A k \in 1..Len(sleeps) : sleeps[k].d = 1000 * GoOnSame.sleeps[k].d

\* C26: in BlackRoadClient.request a 2xx response ends the call: the call
\* has returned, nothing was sent and no sleep was made after it, and a body
\* that is not JSON makes the call fail instead of being retried.
C26_JsSuccessTerminal ==
    \A i \in 1..Len(outcomes) :
        Is2xx(outcomes[i]) =>
            /\ Returned
            /\ i = Len(outcomes)
            /\ Len(sends) = i
            /\ \A k \in 1..Len(sleeps) : sleeps[k].after < i - 1
            /\ ~ResponseJson(outcomes[i].body).ok => ret.err # NilError

----------------------------------------------------------------------------
(* Properties of the pauses between sends *)

\* C27: between two consecutive sends of one call request sleeps a positive
\* delay: 2^n seconds after the transport failure of attempt n, Retry-After
\* seconds after a 429. No send follows the one before it at once.
C27_SleepBetweenSends ==
    \A n \in 1..(Len(sends) - 1) :
        \E k \in 1..Len(sleeps) :
            /\ sleeps[k].after = n - 1
            /\ sleeps[k].d > 0
            /\ \/ IsTransport(outcomes[n]) /\ sleeps[k].d = 2 ^ (n - 1)
               \/ Is429(outcomes[n]) /\ sleeps[k].d = HeaderSeconds(outcomes[n].hdr)

----------------------------------------------------------------------------
(* Properties of the error returned after the loop *)

\* The attempt with this outcome assigns lastErr, and what it assigns.
Records(o) == o.kind \in {"transport", "readfail"} \/ IsOtherStatus(o)

RecordedBy(o) ==
    CASE o.kind = "transport" -> NewConnectionError("request failed", "transport")
      [] o.kind = "readfail" -> NewConnectionError("failed to read response", "read")
      [] o.kind = "status" -> NewApiError(o.status, o.body)

\* The loop ran out: the call returned after an attempt whose outcome does
\* not make request return by itself.
RanOut == Returned /\ Len(outcomes) >= 1 /\ ~IsTerminalOutcome(Len(outcomes))

\* C28: when the loop of request runs out, the error returned is the one
\* recorded by the most recent attempt that recorded one, with the class,
\* status and body of that attempt's outcome and of no earlier one.
C28_LastErrIsMostRecent ==
    RanOut =>
        LET rec == {i \in 1..Len(outcomes) : Records(outcomes[i])}
        IN  /\ rec # {}
            /\ \E j \in rec :
                /\ \A i \in rec : i <= j
                /\ ret = [body |-> <<>>, err |-> RecordedBy(outcomes[j])]

C28_Witness ==
    /\ RanOut
    /\ Len(outcomes) = 3
    /\ IsTransport(outcomes[1])
    /\ Is429(outcomes[2])
    /\ IsOtherStatus(outcomes[3])
    /\ ret.err.StatusCode = outcomes[3].status
    /\ ret.err.Message.arg = <<"b">>

\* The error request returns for the outcome that ended the call.
ErrorOf(o) ==
    IF Records(o) THEN RecordedBy(o)
    ELSE IF Is429(o) THEN NewRateLimitError(HeaderSeconds(o.hdr))
    ELSE TerminalError(o.status, call.endpoint, o.body)

\* The body of the call can be marshalled: request gets to its loop.
BodyMarshals == call.body.kind = "nil" \/ Marshal(call.body).ok

\* A returned error is classified: it has a code and is not the generic one.
Classified(err) == err.Code # "" /\ err # MaxRetriesExceeded

\* C29: request returns the generic error 'max retries exceeded' (no code,
\* no status) only when it made no send, which is the case exactly when
\* maxRetries <= 0; after at least one attempt a returned error is a
\* classified one with the cause of that attempt.
C29_GenericOnlyWithoutSends ==
    Returned =>
        /\ ret.err = MaxRetriesExceeded => Len(sends) = 0
        /\ ret.err = MaxRetriesExceeded <=> MaxRetries <= 0
        /\ (Len(sends) >= 1 /\ ret.err # NilError) =>
            /\ Classified(ret.err)
            /\ ret.err = ErrorOf(outcomes[Len(outcomes)])

\* C29, amended: the generic error is returned exactly when maxRetries <= 0
\* and the body, if any, could be marshalled (a body that cannot be makes
\* request return a ConnectionError before the loop, whatever maxRetries);
\* no send was made then. After at least one attempt a returned error is a
\* classified one with the cause of the last attempt.
C29_GenericIffLoopSkipped ==
    Returned =>
        /\ ret.err = MaxRetriesExceeded => Len(sends) = 0
        /\ ret.err = MaxRetriesExceeded <=> (MaxRetries <= 0 /\ BodyMarshals)
        /\ (MaxRetries <= 0 /\ ~BodyMarshals) =>
                (Len(sends) = 0 /\ ret.err.type = "ConnectionError")
        /\ (Len(sends) >= 1 /\ ret.err # NilError) =>
            /\ Classified(ret.err)
            /\ ret.err = ErrorOf(outcomes[Len(outcomes)])

C29_Witness ==
    /\ Returned
    /\ MaxRetries = 0 - 1
    /\ call.method = "POST"
    /\ BodyMarshals
    /\ ret.err.Message.fmt = "max retries exceeded"
    /\ ret.err.Code = ""
    /\ ret.err.StatusCode = 0
    /\ sends = <<>>

----------------------------------------------------------------------------
(* Properties of a cancelled call *)

\* C30: the backoff sleeps of request do not look at the caller's context.
\* Once the context is cancelled (in attempt n, or in the sleep after it) the
\* call still makes every remaining attempt and sleeps every remaining
\* backoff: a sleep under way is slept to its end, every later attempt fails
\* in Do and is followed by its 2^i seconds, and the call returns only after
\* the last of maxRetries attempts and the sleep that follows it.
C30_SleepsNotInterruptible ==
    ctx.done =>
        LET n == ctx.at
        IN  /\ (ctx.during = "sleep" /\ attempt = n) => pc = "sleep"
            /\ \A i \in (n + 1)..(Len(outcomes) - 1) :
                /\ IsTransport(outcomes[i + 1])
                /\ \E k \in 1..Len(sleeps) : sleeps[k] = [after |-> i, d |-> 2 ^ i]
            /\ (ctx.during = "send" /\ Len(outcomes) > n) =>
                /\ IsTransport(outcomes[n + 1])
                /\ \E k \in 1..Len(sleeps) : sleeps[k] = [after |-> n, d |-> 2 ^ n]
            /\ Returned =>
                /\ Len(sends) = MaxRetries
                /\ Len(outcomes) = MaxRetries
                /\ pending = 0
                /\ ret.err # NilError

C30_Witness ==
    /\ ctx = [done |-> TRUE, at |-> 0, during |-> "sleep"]
    /\ MaxRetries = 3
    /\ Returned
    /\ Is429(outcomes[1])
    /\ Len(sends) = 3
    /\ Len(sleeps) = 3
    /\ sleeps[2].d = 2
    /\ sleeps[3].d = 4
    /\ ret.err.type = "ConnectionError"

----------------------------------------------------------------------------
(* Properties of the timeout *)

\* C24: every send of request is bounded by the timeout NewClient resolved
\* (the explicit Timeout, else 30 seconds), whatever the ClientConfig, one
\* with an HTTPClient of its own included: the http.Client that sends has
\* that Timeout (0 is no timeout at all).
C24_SendsBoundedByTimeout ==
    Len(sends) >= 1 =>
        /\ client[1].timeout = (IF config.Timeout = 0 THEN 30 ELSE config.Timeout)
        /\ client[1].httpClient.Timeout = client[1].timeout

====
